---- MODULE Spec2Model ----
(***************************************************************************)
(* Controls: an input-binding engine.  Raw device events (buttons, keys,   *)
(* device removal) are translated into Fire / Switch events through        *)
(* binding tables and press counters (src/src/lib.rs).                     *)
(*                                                                         *)
(* The Controls struct is the record held by the variable `controls`; each *)
(* Rust method is an operator from a Controls record to the Controls       *)
(* record it leaves behind, and each public call is one action.            *)
(***************************************************************************)
EXTENDS Integers, Sequences, FiniteSets, TLC

VARIABLES
    controls,      \* the Controls struct (lib.rs:135-146), plus debug_panic
    outstanding,   \* environment: unmatched Pressed per <<trigger, device>>
    last_switch,   \* history: state of the last Switch event enqueued per target
    codec          \* the trigger or TOML value the trigger codec (triggers.rs) works on

vars == <<controls, outstanding, last_switch, codec>>

----------------------------------------------------------------------------
(* Bounds of the model *)

\* unmatched presses the environment keeps on one <<trigger, device>>
MaxPress == 1
\* unmatched presses the environment keeps overall
MaxHeld == 2
\* events that may wait in the queue before the caller drains it
MaxQueue == 2
\* largest value a switch counter is followed to
MaxCounter == 2

\* The counters are u32.  A negative integer n of the model stands for the u32
\* value 2^32 + n that a build without overflow checks wraps to, so + and -
\* are the integers' and the code's `x > 0` is Positive(x).
Positive(x) == x # 0

----------------------------------------------------------------------------
(* Input vocabulary *)

Devices == {"D1", "D2"}

FireTargets == {"LMBFire"}
SwitchTargets == {"GHSwitch"}
ValueTargets == {"MouseX"}

\* HoldableTrigger (triggers.rs:47-52)
Button(number) == <<"Button", number>>
ScanCode(code) == <<"ScanCode", code>>
KeyCode(name) == <<"KeyCode", name>>

Buttons == {1, 2}

Pressed == "Pressed"
Released == "Released"
Active == "Active"
Inactive == "Inactive"

----------------------------------------------------------------------------
(* HashMap helpers: a map is a function whose DOMAIN is its key set *)

EmptyMap == [k \in {} |-> 0]

Put(m, k, v) == [x \in (DOMAIN m) \cup {k} |-> IF x = k THEN v ELSE m[x]]

Get(m, k, default) == IF k \in DOMAIN m THEN m[k] ELSE default

\* every order in which a HashSet may hand out its elements
Orders(S) == {o \in [1..Cardinality(S) -> S] : \A i, j \in 1..Cardinality(S) : o[i] = o[j] => i = j}

\* the elements of set S in the order given by the sequence ord
Iter(S, ord) == SelectSeq(ord, LAMBDA x : x \in S)

----------------------------------------------------------------------------
(* Events *)

Fire(target) == <<"Fire", target>>
Switch(target, state) == <<"Switch", target, state>>

----------------------------------------------------------------------------
(* Construction *)

\* HoldableTriggerData::new (lib.rs:95-102)
HoldableTriggerData_new ==
    [on_press |-> {}, while_down |-> {}, device_counters |-> EmptyMap, overall_counter |-> 0]

\* MouseWheelMapping::new (lib.rs:119-125)
MouseWheelMapping_new == [on_up |-> {}, on_down |-> {}, on_change |-> {}]

\* Controls::new (lib.rs:153-162).  debug_panic is not a field of the struct:
\* it records that a debug_assert! was reached with a false condition or that a
\* u32 subtraction went below 0 (a debug build panics there, a release build
\* carries on with the wrapped value).
Controls_new ==
    [holdable_trigger_data |-> EmptyMap,
     axis_mappings |-> EmptyMap,
     mouse_wheel_mapping |-> MouseWheelMapping_new,
     switch_counter |-> EmptyMap,
     value_factors |-> EmptyMap,
     events |-> <<>>,
     debug_panic |-> FALSE]

\* self.holdable_trigger_data.entry(trigger).or_insert_with(HoldableTriggerData::new)
EntryOrInsert(c, trigger) ==
    IF trigger \in DOMAIN c.holdable_trigger_data
    THEN c
    ELSE [c EXCEPT !.holdable_trigger_data = Put(@, trigger, HoldableTriggerData_new)]

----------------------------------------------------------------------------
(* Switch counters *)

\* fault: the `*counter == 0` test of lib.rs:529 is dropped
increase_always_active(c, target) ==
    LET counter == Get(c.switch_counter, target, 0)
    IN  [c EXCEPT
            !.events = Append(@, Switch(target, Active)),
            !.switch_counter = Put(@, target, counter + 1)]

\* increase_switch_target_counter (lib.rs:523-536)
increase_switch_target_counter(c, target) ==
    LET counter == Get(c.switch_counter, target, 0)
    IN  [c EXCEPT
            !.events = IF counter = 0 THEN Append(@, Switch(target, Active)) ELSE @,
            !.switch_counter = Put(@, target, counter + 1)]

\* fault: the `*counter == 0` test of lib.rs:546 is dropped
decrease_always_inactive(c, target) ==
    LET counter == Get(c.switch_counter, target, 0)
    IN  [c EXCEPT
            !.debug_panic = @ \/ ~Positive(counter),
            !.switch_counter = Put(@, target, counter - 1),
            !.events = Append(@, Switch(target, Inactive))]

\* decrease_switch_target_counter (lib.rs:538-552)
decrease_switch_target_counter(c, target) ==
    LET counter == Get(c.switch_counter, target, 0)
        after == counter - 1
    IN  [c EXCEPT
            !.debug_panic = @ \/ ~Positive(counter),
            !.switch_counter = Put(@, target, after),
            !.events = IF after = 0 THEN Append(@, Switch(target, Inactive)) ELSE @]

----------------------------------------------------------------------------
(* Binding store *)

\* add_fire_bind (lib.rs:291-309); trigger is <<"Holdable", h>> or <<"MouseWheelTick", dir>>
add_fire_bind(c, trigger, target) ==
    IF trigger[1] = "Holdable"
    THEN LET c1 == EntryOrInsert(c, trigger[2])
         IN  [c1 EXCEPT !.holdable_trigger_data[trigger[2]].on_press = @ \cup {target}]
    ELSE IF trigger[2] = "Up"
         THEN [c EXCEPT !.mouse_wheel_mapping.on_up = @ \cup {target}]
         ELSE [c EXCEPT !.mouse_wheel_mapping.on_down = @ \cup {target}]

\* fault: the live-rebinding increment of lib.rs:316-322 is omitted
add_switch_bind_not_live(c, trigger, target) ==
    LET c1 == EntryOrInsert(c, trigger)
    IN  [c1 EXCEPT !.holdable_trigger_data[trigger].while_down = @ \cup {target}]

\* fault: bind_is_new of lib.rs:314 is ignored
add_switch_bind_ignores_new(c, trigger, target) ==
    LET c1 == EntryOrInsert(c, trigger)
        data == c1.holdable_trigger_data[trigger]
        c2 == [c1 EXCEPT !.holdable_trigger_data[trigger].while_down = @ \cup {target}]
    IN  IF Positive(data.overall_counter)
        THEN increase_switch_target_counter(c2, target)
        ELSE c2

\* add_switch_bind (lib.rs:311-323)
add_switch_bind(c, trigger, target) ==
    LET c1 == EntryOrInsert(c, trigger)
        data == c1.holdable_trigger_data[trigger]
        bind_is_new == target \notin data.while_down
        trigger_is_active == Positive(data.overall_counter)
        c2 == [c1 EXCEPT !.holdable_trigger_data[trigger].while_down = @ \cup {target}]
    IN  IF bind_is_new /\ trigger_is_active
        THEN increase_switch_target_counter(c2, target)
        ELSE c2

\* add_value_bind (lib.rs:325-342); trigger is <<"MouseX">>, <<"MouseY">>,
\* <<"MouseWheel">> or <<"Axis", a>>
add_value_bind(c, trigger, target) ==
    CASE trigger[1] = "MouseX" -> c
      [] trigger[1] = "MouseY" -> c
      [] trigger[1] = "MouseWheel" ->
            [c EXCEPT !.mouse_wheel_mapping.on_change = @ \cup {target}]
      [] trigger[1] = "Axis" ->
            [c EXCEPT !.axis_mappings =
                Put(@, trigger[2], Get(@, trigger[2], {}) \cup {target})]

\* fault: a holdable Fire binding is never taken out of on_press
remove_fire_bind_keeps_holdable(c, trigger, target) ==
    IF trigger[1] = "Holdable"
    THEN c
    ELSE IF trigger[2] = "Up"
         THEN [c EXCEPT !.mouse_wheel_mapping.on_up = @ \ {target}]
         ELSE [c EXCEPT !.mouse_wheel_mapping.on_down = @ \ {target}]

\* remove_fire_bind (lib.rs:344-356)
remove_fire_bind(c, trigger, target) ==
    IF trigger[1] = "Holdable"
    THEN IF trigger[2] \in DOMAIN c.holdable_trigger_data
         THEN [c EXCEPT !.holdable_trigger_data[trigger[2]].on_press = @ \ {target}]
         ELSE c
    ELSE IF trigger[2] = "Up"
         THEN [c EXCEPT !.mouse_wheel_mapping.on_up = @ \ {target}]
         ELSE [c EXCEPT !.mouse_wheel_mapping.on_down = @ \ {target}]

\* fault: the live-rebinding decrement of lib.rs:362-368 is omitted
remove_switch_bind_not_live(c, trigger, target) ==
    IF trigger \in DOMAIN c.holdable_trigger_data
    THEN [c EXCEPT !.holdable_trigger_data[trigger].while_down = @ \ {target}]
    ELSE c

\* fault: the counter is decreased whether or not the trigger is held
remove_switch_bind_always_decreases(c, trigger, target) ==
    IF trigger \in DOMAIN c.holdable_trigger_data
    THEN LET data == c.holdable_trigger_data[trigger]
             c1 == [c EXCEPT !.holdable_trigger_data[trigger].while_down = @ \ {target}]
         IN  IF target \in data.while_down
             THEN decrease_switch_target_counter(c1, target)
             ELSE c1
    ELSE c

\* remove_switch_bind (lib.rs:358-370)
remove_switch_bind(c, trigger, target) ==
    IF trigger \in DOMAIN c.holdable_trigger_data
    THEN LET data == c.holdable_trigger_data[trigger]
             bind_existed == target \in data.while_down
             trigger_is_active == Positive(data.overall_counter)
             c1 == [c EXCEPT !.holdable_trigger_data[trigger].while_down = @ \ {target}]
         IN  IF bind_existed /\ trigger_is_active
             THEN decrease_switch_target_counter(c1, target)
             ELSE c1
    ELSE c

\* remove_value_bind (lib.rs:372-389)
remove_value_bind(c, trigger, target) ==
    CASE trigger[1] = "MouseX" -> c
      [] trigger[1] = "MouseY" -> c
      [] trigger[1] = "MouseWheel" ->
            [c EXCEPT !.mouse_wheel_mapping.on_change = @ \ {target}]
      [] trigger[1] = "Axis" ->
            IF trigger[2] \in DOMAIN c.axis_mappings
            THEN [c EXCEPT !.axis_mappings[trigger[2]] = @ \ {target}]
            ELSE c

\* add_bind (lib.rs:255-261); bind is <<family, trigger, target>>
add_bind(c, bind) ==
    CASE bind[1] = "Fire" -> add_fire_bind(c, bind[2], bind[3])
      [] bind[1] = "Switch" -> add_switch_bind(c, bind[2], bind[3])
      [] bind[1] = "Value" -> add_value_bind(c, bind[2], bind[3])

\* remove_bind (lib.rs:263-269)
remove_bind(c, bind) ==
    CASE bind[1] = "Fire" -> remove_fire_bind(c, bind[2], bind[3])
      [] bind[1] = "Switch" -> remove_switch_bind(c, bind[2], bind[3])
      [] bind[1] = "Value" -> remove_value_bind(c, bind[2], bind[3])

----------------------------------------------------------------------------
(* Press-counter state machine *)

\* the loop of lib.rs:493-495 over the on_press targets, in iteration order
RECURSIVE PushFires(_, _)
PushFires(c, targets) ==
    IF targets = <<>>
    THEN c
    ELSE PushFires([c EXCEPT !.events = Append(@, Fire(Head(targets)))], Tail(targets))

\* the loop of lib.rs:497-510 over the while_down targets, in iteration order
RECURSIVE UpdateSwitches(_, _, _)
UpdateSwitches(c, targets, state) ==
    IF targets = <<>>
    THEN c
    ELSE UpdateSwitches(
            IF state = Pressed
            THEN increase_switch_target_counter(c, Head(targets))
            ELSE decrease_switch_target_counter(c, Head(targets)),
            Tail(targets), state)

\* fault: the early returns are dropped, every press and release is an edge
reaches_edge_always(state, new_overall) == TRUE

\* fault: the early return of lib.rs:485-487 is dropped, every release goes on
\* to the targets
reaches_edge_any_release(state, new_overall) ==
    IF state = Pressed THEN new_overall = 1 ELSE TRUE

\* the early returns of lib.rs:469-471 and 485-487: only the 0 <-> 1 edge of
\* overall_counter goes on to the targets
reaches_edge(state, new_overall) ==
    IF state = Pressed THEN new_overall = 1 ELSE new_overall = 0

\* fault: the while_down loop runs before the on_press loop
handle_holdable_trigger_switch_first(c, trigger, device_id, state, fire_ord, switch_ord) ==
    LET c1 == EntryOrInsert(c, trigger)
        data == c1.holdable_trigger_data[trigger]
        device_counter == Get(data.device_counters, device_id, 0)
        overall_counter == data.overall_counter
        step == IF state = Pressed THEN 1 ELSE -1
        failed == state = Released /\ ~(Positive(device_counter) /\ Positive(overall_counter))
        c2 == [c1 EXCEPT
                  !.holdable_trigger_data[trigger].device_counters =
                        Put(@, device_id, device_counter + step),
                  !.holdable_trigger_data[trigger].overall_counter = overall_counter + step,
                  !.debug_panic = @ \/ failed]
        c3 == UpdateSwitches(c2, Iter(data.while_down, switch_ord), state)
    IN  IF ~reaches_edge(state, overall_counter + step)
        THEN c2
        ELSE IF state = Pressed THEN PushFires(c3, Iter(data.on_press, fire_ord)) ELSE c3

\* handle_holdable_trigger (lib.rs:456-512).  fire_ord and switch_ord give the
\* order in which the two HashSets are iterated.
handle_holdable_trigger(c, trigger, device_id, state, fire_ord, switch_ord) ==
    LET c1 == EntryOrInsert(c, trigger)
        data == c1.holdable_trigger_data[trigger]
        device_counter == Get(data.device_counters, device_id, 0)
        overall_counter == data.overall_counter
        step == IF state = Pressed THEN 1 ELSE -1
        new_device == device_counter + step
        new_overall == overall_counter + step
        failed == state = Released /\ ~(Positive(device_counter) /\ Positive(overall_counter))
        c2 == [c1 EXCEPT
                  !.holdable_trigger_data[trigger].device_counters = Put(@, device_id, new_device),
                  !.holdable_trigger_data[trigger].overall_counter = new_overall,
                  !.debug_panic = @ \/ failed]
        edge == reaches_edge(state, new_overall)
        c3 == IF state = Pressed THEN PushFires(c2, Iter(data.on_press, fire_ord)) ELSE c2
    IN  IF ~edge
        THEN c2
        ELSE UpdateSwitches(c3, Iter(data.while_down, switch_ord), state)

\* on_button (lib.rs:428-431)
on_button(c, device_id, button_id, state, fire_ord, switch_ord) ==
    handle_holdable_trigger(c, <<"Button", button_id>>, device_id, state, fire_ord, switch_ord)

\* fault: the scancode channel is handled only when no virtual keycode is present
on_keyboard_input_keycode_only(c, device_id, input, ords) ==
    IF input.virtual_keycode # "None"
    THEN handle_holdable_trigger(c, <<"KeyCode", input.virtual_keycode>>,
            device_id, input.state, ords[1], ords[2])
    ELSE handle_holdable_trigger(c, <<"ScanCode", input.scancode>>,
            device_id, input.state, ords[3], ords[4])

\* on_keyboard_input (lib.rs:420-426); input is [scancode, virtual_keycode, state]
\* with virtual_keycode "None" when absent.  ords is the iteration order of the
\* <<on_press, while_down>> sets of the KeyCode trigger and of the ScanCode trigger.
on_keyboard_input(c, device_id, input, ords) ==
    LET c1 == IF input.virtual_keycode # "None"
              THEN handle_holdable_trigger(c, <<"KeyCode", input.virtual_keycode>>,
                        device_id, input.state, ords[1], ords[2])
              ELSE c
    IN  handle_holdable_trigger(c1, <<"ScanCode", input.scancode>>,
            device_id, input.state, ords[3], ords[4])

\* fault: lib.rs:517 is dropped, the device's presses stay in overall_counter
RemoveDeviceFrom_keeps_overall(data, device_id) ==
    IF device_id \in DOMAIN data.device_counters
    THEN [data EXCEPT !.device_counters[device_id] = 0]
    ELSE data

\* fault: lib.rs:518 is dropped, the removed device keeps its counter
RemoveDeviceFrom_keeps_device(data, device_id) ==
    IF device_id \in DOMAIN data.device_counters
    THEN [data EXCEPT !.overall_counter = @ - data.device_counters[device_id]]
    ELSE data

\* the body of the loop of on_device_removed for one trigger's data (lib.rs:516-519)
RemoveDeviceFrom(data, device_id) ==
    IF device_id \in DOMAIN data.device_counters
    THEN [data EXCEPT
            !.overall_counter = @ - data.device_counters[device_id],
            !.device_counters[device_id] = 0]
    ELSE data

\* the u32 subtraction of lib.rs:517 goes below 0
RemoveUnderflows(data, device_id) ==
    /\ device_id \in DOMAIN data.device_counters
    /\ data.overall_counter >= 0
    /\ data.device_counters[device_id] >= 0
    /\ data.overall_counter < data.device_counters[device_id]

\* fault: the removal resets every counter of every trigger
on_device_removed_resets_all(c, device_id) ==
    [c EXCEPT !.holdable_trigger_data =
        [t \in DOMAIN @ |-> [@[t] EXCEPT !.overall_counter = 0,
                                         !.device_counters = [d \in DOMAIN @ |-> 0]]]]

\* on_device_removed (lib.rs:514-521)
on_device_removed(c, device_id) ==
    [c EXCEPT
        !.holdable_trigger_data = [t \in DOMAIN @ |-> RemoveDeviceFrom(@[t], device_id)],
        !.debug_panic = @ \/ \E t \in DOMAIN c.holdable_trigger_data :
                            RemoveUnderflows(c.holdable_trigger_data[t], device_id)]

\* what the Drain returned by get_events yields, front to back (lib.rs:288)
Drain(c) == c.events

\* fault: the drain stops before the last event, which stays in the queue
get_events_keeps_last(c) ==
    [c EXCEPT !.events = IF @ = <<>> THEN <<>> ELSE <<@[Len(@)]>>]

\* get_events (lib.rs:287-289): the queue after the caller has used the Drain
get_events(c) == [c EXCEPT !.events = <<>>]

----------------------------------------------------------------------------
(* Reading the state *)

\* the data of a trigger, whether or not the map has an entry for it
DataOf(c, trigger) == Get(c.holdable_trigger_data, trigger, HoldableTriggerData_new)

OverallCounter(c, trigger) == DataOf(c, trigger).overall_counter

DeviceCounter(c, trigger, device_id) == Get(DataOf(c, trigger).device_counters, device_id, 0)

SwitchCounter(c, target) == Get(c.switch_counter, target, 0)

\* the events that c2 has enqueued behind those of c
NewEvents(c, c2) == SubSeq(c2.events, Len(c.events) + 1, Len(c2.events))

RECURSIVE UpdateLast(_, _)
UpdateLast(last, evs) ==
    IF evs = <<>>
    THEN last
    ELSE UpdateLast(
            IF Head(evs)[1] = "Switch"
            THEN [last EXCEPT ![Head(evs)[2]] = Head(evs)[3]]
            ELSE last,
            Tail(evs))

RECURSIVE SumOver(_, _)
SumOver(f, S) ==
    IF S = {} THEN 0
    ELSE LET x == CHOOSE y \in S : TRUE IN f[x] + SumOver(f, S \ {x})

----------------------------------------------------------------------------
(* Inputs *)

\* ControlBind (lib.rs:73-78) over given triggers
HoldableBinds(triggers) ==
    {<<"Fire", <<"Holdable", h>>, f>> : h \in triggers, f \in FireTargets}
    \cup {<<"Switch", h, t>> : h \in triggers, t \in SwitchTargets}

WheelBinds ==
    {<<"Fire", <<"MouseWheelTick", dir>>, f>> : dir \in {"Up", "Down"}, f \in FireTargets}

Axes == {0}

ValueBinds ==
    {<<"Value", tr, t>> :
        tr \in {<<"MouseX">>, <<"MouseY">>, <<"MouseWheel">>} \cup {<<"Axis", a>> : a \in Axes},
        t \in ValueTargets}

Held == SumOver(outstanding, DOMAIN outstanding)

\* the environment's bookkeeping of a Pressed or Released on triggers ts of device d;
\* a Released is delivered only for a press that is still unmatched
Deliver(ts, d, state) ==
    IF state = Pressed
    THEN /\ \A t \in ts : outstanding[<<t, d>>] < MaxPress
         /\ Held + Cardinality(ts) <= MaxHeld
         /\ outstanding' = [k \in DOMAIN outstanding |->
                IF k[1] \in ts /\ k[2] = d THEN outstanding[k] + 1 ELSE outstanding[k]]
    ELSE /\ \A t \in ts : outstanding[<<t, d>>] > 0
         /\ outstanding' = [k \in DOMAIN outstanding |->
                IF k[1] \in ts /\ k[2] = d THEN outstanding[k] - 1 ELSE outstanding[k]]

\* the part of the state space that is followed
Within(c) ==
    /\ Len(c.events) <= MaxQueue
    /\ c.debug_panic
       \/ \A t \in DOMAIN c.switch_counter : c.switch_counter[t] <= MaxCounter

\* a call returns with state c; nothing is called after a panic
Commit(c) ==
    /\ ~controls.debug_panic
    /\ Within(c)
    /\ controls' = c
    /\ last_switch' = UpdateLast(last_switch, NewEvents(controls, c))
    /\ UNCHANGED codec

----------------------------------------------------------------------------
(* Actions: one per public call *)

InitOver(triggers, devices) ==
    /\ controls = Controls_new
    /\ outstanding = [k \in triggers \X devices |-> 0]
    /\ last_switch = [t \in SwitchTargets |-> "None"]
    /\ codec = [kind |-> "Idle"]

AddBind(binds) ==
    \E bind \in binds :
        /\ Commit(add_bind(controls, bind))
        /\ UNCHANGED outstanding

RemoveBind(binds) ==
    \E bind \in binds :
        /\ Commit(remove_bind(controls, bind))
        /\ UNCHANGED outstanding

\* process(device_id, DeviceEvent::Button { button, state }) (lib.rs:280)
ProcessButton(buttons, devices) ==
    \E d \in devices, button \in buttons, state \in {Pressed, Released},
       fire_ord \in Orders(FireTargets), switch_ord \in Orders(SwitchTargets) :
        /\ Deliver({Button(button)}, d, state)
        /\ Commit(on_button(controls, d, button, state, fire_ord, switch_ord))

\* process(device_id, DeviceEvent::Removed) (lib.rs:282)
ProcessRemoved(devices) ==
    \E d \in devices :
        /\ outstanding' = [k \in DOMAIN outstanding |-> IF k[2] = d THEN 0 ELSE outstanding[k]]
        /\ Commit(on_device_removed(controls, d))

GetEvents ==
    /\ controls.events # <<>>
    /\ Commit(get_events(controls))
    /\ UNCHANGED outstanding

----------------------------------------------------------------------------
(* Spec: buttons 1 and 2 on two devices, bound to Fire and Switch targets *)

ButtonTriggers == {Button(b) : b \in Buttons}

Init == InitOver(ButtonTriggers, Devices)

Next ==
    \/ AddBind(HoldableBinds(ButtonTriggers))
    \/ RemoveBind(HoldableBinds(ButtonTriggers))
    \/ ProcessButton(Buttons, Devices)
    \/ ProcessRemoved(Devices)
    \/ GetEvents

Spec == Init /\ [][Next]_vars

----------------------------------------------------------------------------
(* SpecBind: every kind of binding, with button 1 on one device *)

AllBinds == HoldableBinds({Button(1)}) \cup WheelBinds \cup ValueBinds

InitBind == InitOver({Button(1)}, {"D1"})

NextBind ==
    \/ AddBind(AllBinds)
    \/ RemoveBind(AllBinds)
    \/ ProcessButton({1}, {"D1"})
    \/ ProcessRemoved({"D1"})
    \/ GetEvents

SpecBind == InitBind /\ [][NextBind]_vars

----------------------------------------------------------------------------
(* Vocabulary of the properties *)

\* the holdable triggers and devices the environment of the specification uses
TriggersInPlay == {k[1] : k \in DOMAIN outstanding}
DevicesInPlay == {k[2] : k \in DOMAIN outstanding}

HeldTriggers(c, target) ==
    {h \in DOMAIN c.holdable_trigger_data :
        /\ target \in c.holdable_trigger_data[h].while_down
        /\ Positive(c.holdable_trigger_data[h].overall_counter)}

\* how many times event e occurs in the sequence evs
Count(evs, e) == Cardinality({i \in 1..Len(evs) : evs[i] = e})

\* whether binding b is in the binding store of c
Present(c, b) ==
    CASE b[1] = "Fire" /\ b[2][1] = "Holdable" -> b[3] \in DataOf(c, b[2][2]).on_press
      [] b[1] = "Fire" /\ b[2][1] = "MouseWheelTick" ->
            b[3] \in (IF b[2][2] = "Up" THEN c.mouse_wheel_mapping.on_up
                                        ELSE c.mouse_wheel_mapping.on_down)
      [] b[1] = "Switch" -> b[3] \in DataOf(c, b[2]).while_down
      [] b[1] = "Value" /\ b[2][1] = "MouseWheel" -> b[3] \in c.mouse_wheel_mapping.on_change
      [] b[1] = "Value" /\ b[2][1] = "Axis" -> b[3] \in Get(c.axis_mappings, b[2][2], {})
      [] OTHER -> FALSE

\* c and c2 hold the same bindings
SameBindingStore(c, c2) ==
    /\ \A h \in (DOMAIN c.holdable_trigger_data) \cup (DOMAIN c2.holdable_trigger_data) :
        /\ DataOf(c, h).on_press = DataOf(c2, h).on_press
        /\ DataOf(c, h).while_down = DataOf(c2, h).while_down
    /\ \A a \in (DOMAIN c.axis_mappings) \cup (DOMAIN c2.axis_mappings) :
        Get(c.axis_mappings, a, {}) = Get(c2.axis_mappings, a, {})
    /\ c.mouse_wheel_mapping = c2.mouse_wheel_mapping

\* the binds the specification in force draws from
BindsInPlay == HoldableBinds(TriggersInPlay) \cup WheelBinds \cup ValueBinds

----------------------------------------------------------------------------
(* C1, C2: switch counters against held triggers *)

\* C1: for every Switch target s, switch_counter[s] equals the number of
\* holdable triggers h with s in h.while_down and h.overall_counter > 0.
C1_SwitchCounterCountsHeld ==
    \A s \in SwitchTargets :
        SwitchCounter(controls, s) = Cardinality(HeldTriggers(controls, s))

\* the triggers bound to s that on_device_removed(c, d) takes from held to not held
DroppedBy(c, d, s) ==
    {h \in HeldTriggers(c, s) : ~Positive(OverallCounter(on_device_removed(c, d), h))}

\* C2: when process(d, Removed) drives a holdable trigger's overall_counter from
\* a positive value to 0, a switch-counter decrement is performed for every
\* Switch target in its while_down set, and Switch{s, Inactive} is enqueued for
\* each such target whose switch counter reaches 0.
C2_RemovedDecrementsSwitches ==
    \A d \in DevicesInPlay, s \in SwitchTargets :
        LET c2 == on_device_removed(controls, d)
        IN  DroppedBy(controls, d, s) # {} =>
                /\ SwitchCounter(c2, s) =
                       SwitchCounter(controls, s) - Cardinality(DroppedBy(controls, d, s))
                /\ SwitchCounter(c2, s) = 0 =>
                       Count(NewEvents(controls, c2), Switch(s, Inactive)) = 1

----------------------------------------------------------------------------
(* C3, C4: the Switch events of a target *)

\* evs continues, for every target, the alternation that last has reached
RECURSIVE Alternates(_, _)
Alternates(last, evs) ==
    IF evs = <<>>
    THEN TRUE
    ELSE /\ Head(evs)[1] = "Switch" =>
                Head(evs)[3] = (IF last[Head(evs)[2]] = Active THEN Inactive ELSE Active)
         /\ Alternates(UpdateLast(last, <<Head(evs)>>), Tail(evs))

\* C3: over the whole emitted stream, across drains, the Switch events of a
\* target alternate Active, Inactive, Active, ... starting with Active: every
\* step enqueues only Switch events that continue the alternation.
C3_SwitchEventsAlternate ==
    [][Alternates(last_switch, NewEvents(controls, controls'))]_vars

\* S2 of the spec: both buttons bound to the target, pressed and released
\* overlapping, leave exactly one Active and one Inactive
C3_Witness ==
    \E s \in SwitchTargets :
        /\ controls.events = <<Switch(s, Active), Switch(s, Inactive)>>
        /\ \A b \in Buttons : s \in DataOf(controls, Button(b)).while_down
        /\ SwitchCounter(controls, s) = 0

\* C4: in every step Switch{s, Active} is appended iff switch_counter[s] goes
\* from 0 to 1, Switch{s, Inactive} iff it goes from 1 to 0, and at most one
\* Switch event for s is appended.
C4_SwitchEventIffEdge ==
    [][\A s \in SwitchTargets :
        LET new == NewEvents(controls, controls')
            before == SwitchCounter(controls, s)
            after == SwitchCounter(controls', s)
        IN  /\ Count(new, Switch(s, Active)) = (IF before = 0 /\ after = 1 THEN 1 ELSE 0)
            /\ Count(new, Switch(s, Inactive)) = (IF before = 1 /\ after = 0 THEN 1 ELSE 0)
      ]_vars

\* a second trigger took the counter from 1 to 2 and back without any event
\* after the first Active
C4_Witness ==
    \E s \in SwitchTargets :
        /\ controls.events = <<Switch(s, Active)>>
        /\ SwitchCounter(controls, s) = 1
        /\ \E h \in HeldTriggers(controls, s) :
             \E h2 \in DOMAIN controls.holdable_trigger_data :
                /\ h2 # h
                /\ s \in DataOf(controls, h2).while_down
                /\ \E d \in DOMAIN DataOf(controls, h2).device_counters :
                     DeviceCounter(controls, h2, d) = 0

----------------------------------------------------------------------------
(* C5: press counters *)

\* C5: for every holdable trigger h, h.overall_counter equals the sum of
\* h.device_counters over all devices, and that sum is non-negative.
C5_OverallIsSumOfDevices ==
    \A h \in DOMAIN controls.holdable_trigger_data :
        LET data == controls.holdable_trigger_data[h]
        IN  /\ data.overall_counter = SumOver(data.device_counters, DOMAIN data.device_counters)
            /\ data.overall_counter >= 0
            /\ \A d \in DOMAIN data.device_counters : data.device_counters[d] >= 0

\* a trigger pressed on two devices, one of which was then removed or released
C5_Witness ==
    \E h \in DOMAIN controls.holdable_trigger_data :
        LET data == controls.holdable_trigger_data[h]
        IN  /\ data.overall_counter = 1
            /\ \E d1, d2 \in DOMAIN data.device_counters :
                 data.device_counters[d1] = 0 /\ data.device_counters[d2] = 1

----------------------------------------------------------------------------
(* C6: Fire events of holdable triggers *)

\* a Pressed of trigger h is delivered in this step
PressedStep(h) ==
    \E d \in DevicesInPlay : outstanding'[<<h, d>>] = outstanding[<<h, d>>] + 1

\* C6: Fire(f) is enqueued exactly when a Pressed moves the overall_counter of
\* a trigger h with f in h.on_press from 0 to 1, once per such target; a Pressed
\* that finds the counter positive, a Released, a device Removed, add_bind and
\* remove_bind enqueue no Fire.
C6_FireOnPressEdgeOnly ==
    [][\A f \in FireTargets :
        Count(NewEvents(controls, controls'), Fire(f)) =
            Cardinality({h \in TriggersInPlay :
                /\ PressedStep(h)
                /\ OverallCounter(controls, h) = 0
                /\ OverallCounter(controls', h) = 1
                /\ f \in DataOf(controls, h).on_press})
      ]_vars

\* S6 of the spec: a bound button pressed on two devices has fired once
C6_Witness ==
    \E f \in FireTargets, h \in TriggersInPlay :
        /\ f \in DataOf(controls, h).on_press
        /\ OverallCounter(controls, h) = 2
        /\ \A d \in DevicesInPlay : DeviceCounter(controls, h, d) = 1
        /\ controls.events = <<Fire(f)>>

----------------------------------------------------------------------------
(* C7, C8: live rebinding *)

\* C7: add_bind(Switch(h, t)) with t not in h.while_down and h.overall_counter > 0
\* increments switch_counter[t] by one and enqueues Switch{t, Active} iff the
\* counter becomes 1; with h.overall_counter = 0 it leaves the switch counters
\* and the queue as they are.
C7_AddSwitchBindLive ==
    \A h \in TriggersInPlay, t \in SwitchTargets :
        LET c2 == add_bind(controls, <<"Switch", h, t>>)
        IN  /\ (t \notin DataOf(controls, h).while_down /\ OverallCounter(controls, h) > 0) =>
                /\ SwitchCounter(c2, t) = SwitchCounter(controls, t) + 1
                /\ NewEvents(controls, c2) =
                      (IF SwitchCounter(c2, t) = 1 THEN <<Switch(t, Active)>> ELSE <<>>)
                /\ Len(c2.events) >= Len(controls.events)
            /\ OverallCounter(controls, h) = 0 =>
                /\ c2.switch_counter = controls.switch_counter
                /\ c2.events = controls.events

\* a trigger that was pressed while it had no binding gets its first binding,
\* and the call enqueues Active
C7_Witness ==
    \E h \in DOMAIN controls.holdable_trigger_data, t \in SwitchTargets :
        LET c2 == add_bind(controls, <<"Switch", h, t>>)
        IN  /\ DataOf(controls, h).on_press = {}
            /\ DataOf(controls, h).while_down = {}
            /\ OverallCounter(controls, h) > 0
            /\ NewEvents(controls, c2) = <<Switch(t, Active)>>
            /\ Within(c2)

\* C8: remove_bind(Switch(h, t)) with t in h.while_down and h.overall_counter > 0
\* decrements switch_counter[t] by one and enqueues Switch{t, Inactive} iff the
\* counter becomes 0; with h.overall_counter = 0 it leaves the switch counters
\* and the queue as they are.
C8_RemoveSwitchBindLive ==
    \A h \in TriggersInPlay, t \in SwitchTargets :
        LET c2 == remove_bind(controls, <<"Switch", h, t>>)
        IN  /\ (t \in DataOf(controls, h).while_down /\ OverallCounter(controls, h) > 0) =>
                /\ SwitchCounter(c2, t) = SwitchCounter(controls, t) - 1
                /\ NewEvents(controls, c2) =
                      (IF SwitchCounter(c2, t) = 0 THEN <<Switch(t, Inactive)>> ELSE <<>>)
                /\ Len(c2.events) >= Len(controls.events)
                /\ ~c2.debug_panic
            /\ OverallCounter(controls, h) = 0 =>
                /\ c2.switch_counter = controls.switch_counter
                /\ c2.events = controls.events

\* two held triggers are bound to t; unbinding one enqueues no Inactive
C8_Witness ==
    \E h \in TriggersInPlay, t \in SwitchTargets :
        LET c2 == remove_bind(controls, <<"Switch", h, t>>)
        IN  /\ Cardinality(HeldTriggers(controls, t)) = 2
            /\ h \in HeldTriggers(controls, t)
            /\ SwitchCounter(controls, t) = 2
            /\ SwitchCounter(c2, t) = 1
            /\ NewEvents(controls, c2) = <<>>
            /\ Within(c2)

----------------------------------------------------------------------------
(* C9, C10: the binding store as a set (checked under SpecBind) *)

\* C9: add_bind(b); add_bind(b) leaves the binding tables, press counters,
\* switch counters and event queue that a single add_bind(b) leaves, and
\* remove_bind(b) of a binding that is not present changes nothing.
C9_BindsAreSetValued ==
    \A b \in BindsInPlay :
        /\ add_bind(add_bind(controls, b), b) = add_bind(controls, b)
        /\ ~Present(controls, b) => remove_bind(controls, b) = controls

\* the first add_bind of a Switch binding to a held trigger enqueues Active,
\* the second one finds the binding present
C9_Witness ==
    \E b \in BindsInPlay :
        LET c2 == add_bind(controls, b)
        IN  /\ b[1] = "Switch"
            /\ ~Present(controls, b)
            /\ OverallCounter(controls, b[2]) > 0
            /\ NewEvents(controls, c2) = <<Switch(b[3], Active)>>
            /\ Present(c2, b)
            /\ Within(c2)
            /\ \E b2 \in BindsInPlay : b2[1] = "Value" /\ Present(controls, b2)

\* add_bind(b); remove_bind(b) gives back the binding store and the switch counters
AddRemoveRestores(b) ==
    LET c2 == remove_bind(add_bind(controls, b), b)
    IN  /\ SameBindingStore(controls, c2)
        /\ \A s \in SwitchTargets : SwitchCounter(c2, s) = SwitchCounter(controls, s)

\* C10 as stated: for any binding b and any reachable state, add_bind(b)
\* followed by remove_bind(b) returns the binding store to its state before the
\* add_bind and leaves every switch counter at its prior value.
C10_AddRemoveRestoresAny ==
    \A b \in BindsInPlay : AddRemoveRestores(b)

\* C10 as amended: the same, for any binding b that is not present before the
\* add_bind.
C10_AddRemoveRestoresAbsent ==
    \A b \in BindsInPlay : ~Present(controls, b) => AddRemoveRestores(b)

\* a Switch binding is added to a held trigger and removed again: the counter
\* goes up and comes back, by way of an Active and an Inactive
C10_Witness ==
    \E b \in BindsInPlay :
        LET c1 == add_bind(controls, b)
            c2 == remove_bind(c1, b)
        IN  /\ b[1] = "Switch"
            /\ ~Present(controls, b)
            /\ OverallCounter(controls, b[2]) > 0
            /\ SwitchCounter(c1, b[3]) = SwitchCounter(controls, b[3]) + 1
            /\ NewEvents(controls, c2) = <<Switch(b[3], Active), Switch(b[3], Inactive)>>
            /\ Within(c2)

----------------------------------------------------------------------------
(* Value events: raw axes *)

\* ControlEvent::Value (lib.rs:132).  An f64 is modelled by an integer: the
\* values, factors and products that occur are small integers, on which f64
\* multiplication and comparison with 0.0 are exact.
Value(target, value) == <<"Value", target, value>>

\* the Value targets of the application: MouseX of tests (lib.rs:591-593) and a
\* second one
AxisTargets == {"MouseX", "LookY"}

\* ValueTargetTrait::base_factor (lib.rs:36-38), 1.0 for the targets of tests
\* (lib.rs:595-599)
base_factor(target) == 1

\* set_factor (lib.rs:251-253)
set_factor(c, target, factor) == [c EXCEPT !.value_factors = Put(@, target, factor)]

\* the loop of on_motion (lib.rs:395-401): value is the loop-carried `mut value`
RECURSIVE MotionLoop(_, _, _)
MotionLoop(c, targets, value) ==
    IF targets = <<>>
    THEN c
    ELSE LET target == Head(targets)
             factor == Get(c.value_factors, target, 1)
             scaled == value * (factor * base_factor(target))
         IN  IF value # 0
             THEN MotionLoop([c EXCEPT !.events = Append(@, Value(target, scaled))],
                             Tail(targets), scaled)
             ELSE MotionLoop(c, Tail(targets), value)

\* on_motion (lib.rs:391-403); ord is the order in which the mapping is iterated
on_motion(c, device_id, axis, value, ord) ==
    IF axis \in DOMAIN c.axis_mappings
    THEN MotionLoop(c, Iter(c.axis_mappings[axis], ord), value)
    ELSE c

\* on_mouse_motion (lib.rs:405-418): the body is a comment
on_mouse_motion(c, device_id, delta) == c

----------------------------------------------------------------------------
(* SpecMotion: two Value targets on axis 0, factors, Motion on axes 0 and 1 *)

MotionAxes == {0, 1}
RawValues == {0, 3}
Factors == {0, 2}

AxisBinds == {<<"Value", <<"Axis", 0>>, t>> : t \in AxisTargets}

InitMotion == InitOver({Button(1)}, {"D1"})

SetFactor ==
    \E t \in AxisTargets, factor \in Factors :
        /\ Commit(set_factor(controls, t, factor))
        /\ UNCHANGED outstanding

\* process(device_id, DeviceEvent::Motion { axis, value }) (lib.rs:278)
ProcessMotion ==
    \E d \in DevicesInPlay, axis \in MotionAxes, value \in RawValues, ord \in Orders(AxisTargets) :
        /\ Commit(on_motion(controls, d, axis, value, ord))
        /\ UNCHANGED outstanding

\* process(device_id, DeviceEvent::MouseMotion { delta }) (lib.rs:279)
ProcessMouseMotion ==
    \E d \in DevicesInPlay, delta \in RawValues \X RawValues :
        /\ Commit(on_mouse_motion(controls, d, delta))
        /\ UNCHANGED outstanding

NextMotion ==
    \/ AddBind(AxisBinds)
    \/ RemoveBind(AxisBinds)
    \/ SetFactor
    \/ ProcessMotion
    \/ ProcessMouseMotion
    \/ GetEvents

SpecMotion == InitMotion /\ [][NextMotion]_vars

----------------------------------------------------------------------------
(* C11, C12, C13: Value events of Motion (checked under SpecMotion) *)

\* factor(t): the factor set for t, 1.0 when unset
FactorOf(c, target) == Get(c.value_factors, target, 1)

\* the values of the Value events for target among evs, in order
ValuesFor(evs, target) ==
    LET mine == SelectSeq(evs, LAMBDA e : e[1] = "Value" /\ e[2] = target)
    IN  [i \in 1..Len(mine) |-> mine[i][3]]

\* C11: process(Motion{axis a, value v}) enqueues, for every Value target t in
\* axis_mappings[a], the event Value{t, v * factor(t) * t.base_factor()}
\* computed from the raw v, whatever else is bound to the axis (read for the
\* non-zero v and products the spec's dead-zero rule lets through); an axis with
\* no bound target produces no event.
C11_MotionScalesRawValue ==
    \A a \in MotionAxes, v \in RawValues, ord \in Orders(AxisTargets) :
        LET c2 == on_motion(controls, "D1", a, v, ord)
            new == NewEvents(controls, c2)
        IN  \A t \in AxisTargets :
                LET scaled == v * FactorOf(controls, t) * base_factor(t)
                IN  IF t \in Get(controls.axis_mappings, a, {})
                    THEN scaled # 0 => ValuesFor(new, t) = <<scaled>>
                    ELSE ValuesFor(new, t) = <<>>

\* C12: no Value event enqueued by a Motion carries the value 0: if
\* v * factor(t) * t.base_factor() = 0, no Value event for t is enqueued.
C12_NoZeroValueEvent ==
    \A a \in MotionAxes, v \in RawValues, ord \in Orders(AxisTargets) :
        LET c2 == on_motion(controls, "D1", a, v, ord)
            new == NewEvents(controls, c2)
        IN  \A t \in AxisTargets :
                v * FactorOf(controls, t) * base_factor(t) = 0 => ValuesFor(new, t) = <<>>

\* C13: the Value{t, _} events enqueued number the Motion events with a
\* non-zero raw value on an axis bound to t, whatever the factors: each such
\* Motion enqueues exactly one, every other Motion none.
C13_OneValuePerNonZeroMotion ==
    \A a \in MotionAxes, v \in RawValues, ord \in Orders(AxisTargets) :
        LET c2 == on_motion(controls, "D1", a, v, ord)
            new == NewEvents(controls, c2)
        IN  \A t \in AxisTargets :
                Len(ValuesFor(new, t)) =
                    (IF v # 0 /\ t \in Get(controls.axis_mappings, a, {}) THEN 1 ELSE 0)

----------------------------------------------------------------------------
(* Mouse wheel *)

LineDelta(x, y) == <<"LineDelta", x, y>>
PixelDelta(x, y) == <<"PixelDelta", x, y>>

\* the loop of lib.rs:451-453 over the on_change targets, in iteration order
RECURSIVE PushValues(_, _, _)
PushValues(c, targets, value) ==
    IF targets = <<>>
    THEN c
    ELSE PushValues([c EXCEPT !.events = Append(@, Value(Head(targets), value))],
                    Tail(targets), value)

\* fault: on_up is served by y > 0 and on_down by y < 0
on_mouse_wheel_signs_swapped(c, device_id, delta, ords) ==
    IF delta[1] = "PixelDelta"
    THEN c
    ELSE LET value == delta[3]
             mapping == c.mouse_wheel_mapping
             c1 == IF value > 0 THEN PushFires(c, Iter(mapping.on_up, ords[1]))
                   ELSE IF value < 0 THEN PushFires(c, Iter(mapping.on_down, ords[2]))
                   ELSE c
         IN  PushValues(c1, Iter(mapping.on_change, ords[3]), value)

\* fault: the wheel value is scaled by the target's factor, as the axis path does
on_mouse_wheel_scaled(c, device_id, delta, ords) ==
    IF delta[1] = "PixelDelta"
    THEN c
    ELSE LET value == delta[3]
             mapping == c.mouse_wheel_mapping
             c1 == IF value < 0 THEN PushFires(c, Iter(mapping.on_up, ords[1]))
                   ELSE IF value > 0 THEN PushFires(c, Iter(mapping.on_down, ords[2]))
                   ELSE c
         IN  MotionLoop(c1, Iter(mapping.on_change, ords[3]), value)

\* fault: a pixel delta is handled like a line delta
on_mouse_wheel_pixels_as_lines(c, device_id, delta, ords) ==
    LET value == delta[3]
        mapping == c.mouse_wheel_mapping
        c1 == IF value < 0 THEN PushFires(c, Iter(mapping.on_up, ords[1]))
              ELSE IF value > 0 THEN PushFires(c, Iter(mapping.on_down, ords[2]))
              ELSE c
    IN  PushValues(c1, Iter(mapping.on_change, ords[3]), value)

\* on_mouse_wheel (lib.rs:433-454); ords is the iteration order of on_up,
\* on_down and on_change
on_mouse_wheel(c, device_id, delta, ords) ==
    IF delta[1] = "PixelDelta"
    THEN c
    ELSE LET value == delta[3]
             mapping == c.mouse_wheel_mapping
             c1 == IF value < 0 THEN PushFires(c, Iter(mapping.on_up, ords[1]))
                   ELSE IF value > 0 THEN PushFires(c, Iter(mapping.on_down, ords[2]))
                   ELSE c
         IN  PushValues(c1, Iter(mapping.on_change, ords[3]), value)

----------------------------------------------------------------------------
(* SpecWheel: the wheel bound to two Fire targets and a Value target *)

WheelFireTargets == {"MWUpFire", "MWDownFire"}
WheelValueTargets == {"MouseX"}

WheelTickBinds ==
    {<<"Fire", <<"MouseWheelTick", dir>>, f>> : dir \in {"Up", "Down"}, f \in WheelFireTargets}
    \cup {<<"Value", <<"MouseWheel">>, t>> : t \in WheelValueTargets}

WheelDeltas == {LineDelta(0, y) : y \in {-1, 0, 1}} \cup {PixelDelta(0, 1)}

InitWheel == InitOver({Button(1)}, {"D1"})

SetWheelFactor ==
    \E t \in WheelValueTargets, factor \in Factors :
        /\ Commit(set_factor(controls, t, factor))
        /\ UNCHANGED outstanding

\* process(device_id, DeviceEvent::MouseWheel { delta }) (lib.rs:277)
ProcessMouseWheel ==
    \E d \in DevicesInPlay, delta \in WheelDeltas,
       up \in Orders(WheelFireTargets), down \in Orders(WheelFireTargets),
       change \in Orders(WheelValueTargets) :
        /\ Commit(on_mouse_wheel(controls, d, delta, <<up, down, change>>))
        /\ UNCHANGED outstanding

NextWheel ==
    \/ AddBind(WheelTickBinds)
    \/ RemoveBind(WheelTickBinds)
    \/ SetWheelFactor
    \/ ProcessMouseWheel
    \/ ProcessMouseMotion
    \/ GetEvents

SpecWheel == InitWheel /\ [][NextWheel]_vars

\* every triple of iteration orders of on_up, on_down and on_change
WheelOrders == Orders(WheelFireTargets) \X Orders(WheelFireTargets) \X Orders(WheelValueTargets)

----------------------------------------------------------------------------
(* C14, C15: wheel events (checked under SpecWheel) *)

\* C14: process(MouseWheel{LineDelta(x, y)}) enqueues exactly one Fire per
\* target in wheel.on_up and none for wheel.on_down when y < 0, exactly one Fire
\* per target in wheel.on_down and none for wheel.on_up when y > 0, and no Fire
\* when y = 0.
C14_WheelFiresBySign ==
    \A delta \in WheelDeltas, ords \in WheelOrders :
        LET new == NewEvents(controls, on_mouse_wheel(controls, "D1", delta, ords))
            mapping == controls.mouse_wheel_mapping
            y == delta[3]
        IN  delta[1] = "LineDelta" =>
                \A f \in WheelFireTargets :
                    Count(new, Fire(f)) =
                        (IF (y < 0 /\ f \in mapping.on_up) \/ (y > 0 /\ f \in mapping.on_down)
                         THEN 1 ELSE 0)

\* with a different target on each direction, a wheel event with y < 0 has
\* fired the on_up target and not the on_down target
C14_Witness ==
    /\ controls.mouse_wheel_mapping.on_up = {"MWUpFire"}
    /\ controls.mouse_wheel_mapping.on_down = {"MWDownFire"}
    /\ controls.events = <<Fire("MWUpFire")>>

\* C15: process(MouseWheel{LineDelta(x, y)}) enqueues, for each target t in
\* wheel.on_change, one event Value{t, y} with the raw y, not multiplied by the
\* target's factor or base factor, after the wheel Fire events of the dispatch.
C15_WheelValueIsRawAndLast ==
    \A delta \in WheelDeltas, ords \in WheelOrders :
        LET new == NewEvents(controls, on_mouse_wheel(controls, "D1", delta, ords))
            mapping == controls.mouse_wheel_mapping
        IN  delta[1] = "LineDelta" =>
                /\ \A t \in WheelValueTargets :
                     ValuesFor(new, t) = (IF t \in mapping.on_change THEN <<delta[3]>> ELSE <<>>)
                /\ \A i, j \in 1..Len(new) :
                     (new[i][1] = "Value" /\ new[j][1] = "Fire") => j < i

\* the target has factor 2 and the queue holds a Fire followed by the raw value
C15_Witness ==
    \E t \in controls.mouse_wheel_mapping.on_change, f \in WheelFireTargets, y \in {-1, 1} :
        /\ FactorOf(controls, t) = 2
        /\ controls.events = <<Fire(f), Value(t, y)>>

----------------------------------------------------------------------------
(* SpecKey: one key, seen as scancode 34 and optionally as keycode G *)

KeyInputs == [scancode : {34}, virtual_keycode : {"None", "G"}, state : {Pressed, Released}]

\* the holdable triggers that on_keyboard_input handles for an input (lib.rs:421-425)
KeyTriggers(input) ==
    {ScanCode(input.scancode)}
    \cup (IF input.virtual_keycode # "None" THEN {KeyCode(input.virtual_keycode)} ELSE {})

AllKeyTriggers == {ScanCode(34), KeyCode("G")}

KeyOrders ==
    Orders(FireTargets) \X Orders(SwitchTargets) \X Orders(FireTargets) \X Orders(SwitchTargets)

InitKey == InitOver(AllKeyTriggers, Devices)

\* process(device_id, DeviceEvent::Key(input)) (lib.rs:279)
ProcessKey ==
    \E d \in Devices, input \in KeyInputs, ords \in KeyOrders :
        /\ Deliver(KeyTriggers(input), d, input.state)
        /\ Commit(on_keyboard_input(controls, d, input, ords))

NextKey ==
    \/ AddBind(HoldableBinds(AllKeyTriggers))
    \/ RemoveBind(HoldableBinds(AllKeyTriggers))
    \/ ProcessKey
    \/ GetEvents

SpecKey == InitKey /\ [][NextKey]_vars

----------------------------------------------------------------------------
(* C16: the two channels of a key (checked under SpecKey) *)

\* the press counters of trigger h move by n on device d and overall, and on
\* no other device
CountersMoveBy(c, c2, h, d, n) ==
    /\ OverallCounter(c2, h) = OverallCounter(c, h) + n
    /\ DeviceCounter(c2, h, d) = DeviceCounter(c, h, d) + n
    /\ \A e \in Devices \ {d} : DeviceCounter(c2, h, e) = DeviceCounter(c, h, e)

----------------------------------------------------------------------------
(* C17: order of the events of one edge (checked under Spec) *)

\* C17: a Pressed dispatch that takes a trigger's overall_counter from 0 to 1
\* enqueues every Fire of its on_press targets before every Switch Active of its
\* while_down targets; a Released dispatch that takes it from 1 to 0 enqueues
\* only Switch Inactive events.
C17_FireBeforeSwitchOnEdge ==
    \A h \in TriggersInPlay, d \in DevicesInPlay,
       fire_ord \in Orders(FireTargets), switch_ord \in Orders(SwitchTargets) :
        LET pressed == NewEvents(controls,
                            handle_holdable_trigger(controls, h, d, Pressed, fire_ord, switch_ord))
            released == NewEvents(controls,
                            handle_holdable_trigger(controls, h, d, Released, fire_ord, switch_ord))
        IN  /\ OverallCounter(controls, h) = 0 =>
                /\ \A i, j \in 1..Len(pressed) :
                     (pressed[i][1] = "Fire" /\ pressed[j][1] = "Switch") => i < j
                /\ \A i \in 1..Len(pressed) :
                     \/ pressed[i] \in {Fire(f) : f \in DataOf(controls, h).on_press}
                     \/ pressed[i] \in {Switch(t, Active) : t \in DataOf(controls, h).while_down}
            /\ (OverallCounter(controls, h) = 1 /\ outstanding[<<h, d>>] > 0) =>
                \A i \in 1..Len(released) :
                    released[i] \in {Switch(t, Inactive) : t \in DataOf(controls, h).while_down}

\* a trigger bound to a Fire and a Switch target is down once and the queue
\* holds the Fire followed by the Active
C17_Witness ==
    \E h \in TriggersInPlay, f \in FireTargets, t \in SwitchTargets :
        /\ f \in DataOf(controls, h).on_press
        /\ t \in DataOf(controls, h).while_down
        /\ OverallCounter(controls, h) = 1
        /\ controls.events = <<Fire(f), Switch(t, Active)>>

----------------------------------------------------------------------------
(* C18: the queue is first in, first out (checked under Spec) *)

\* a call that only enqueues: the events already queued stay, in place, in
\* front of the new ones
Enqueues(c, c2) ==
    /\ Len(c2.events) >= Len(c.events)
    /\ SubSeq(c2.events, 1, Len(c.events)) = c.events

\* a drain: what it yields is the whole queue in queue order, nothing is left
\* and nothing else changes
Drains(c, c2) ==
    /\ Drain(c) \o c2.events = c.events
    /\ c2.events = <<>>
    /\ c2 = [c EXCEPT !.events = <<>>]

\* C18: the queue is a FIFO: every call either appends its events behind those
\* already queued (so events of earlier calls precede events of later calls) or
\* is a drain, which yields every queued event once in the order enqueued,
\* leaves the queue empty and changes no binding table, press counter or switch
\* counter.
C18_QueueIsFifo ==
    [][Enqueues(controls, controls') \/ Drains(controls, controls')]_vars

\* a Switch target was activated and deactivated by two calls and the queue has
\* since been drained while the bindings and counters stayed
C18_Witness ==
    \E h \in TriggersInPlay, t \in SwitchTargets :
        /\ last_switch[t] = Inactive
        /\ t \in DataOf(controls, h).while_down
        /\ h \in DOMAIN controls.holdable_trigger_data
        /\ controls.events = <<>>

----------------------------------------------------------------------------
(* C19: no failure on well-formed input (checked under Spec) *)

\* every press counter of c is a count
CountersNonNegative(c) ==
    \A h \in DOMAIN c.holdable_trigger_data :
        /\ c.holdable_trigger_data[h].overall_counter >= 0
        /\ \A d \in DOMAIN c.holdable_trigger_data[h].device_counters :
             c.holdable_trigger_data[h].device_counters[d] >= 0

Sound(c) == ~c.debug_panic /\ CountersNonNegative(c)

\* C19: for well-formed input (a Released(h, d) only for an unmatched
\* Pressed(h, d) since d's last Removed) no process, add_bind or remove_bind
\* call fails: the assertions of the release path hold, the subtraction of the
\* device removal does not go below 0, and every press counter stays
\* non-negative, whatever binding changes and removals are interleaved.
C19_NoFailureOnWellFormedInput ==
    /\ Sound(controls)
    /\ \A h \in TriggersInPlay, d \in DevicesInPlay,
          fire_ord \in Orders(FireTargets), switch_ord \in Orders(SwitchTargets) :
            /\ Sound(handle_holdable_trigger(controls, h, d, Pressed, fire_ord, switch_ord))
            /\ outstanding[<<h, d>>] > 0 =>
                 Sound(handle_holdable_trigger(controls, h, d, Released, fire_ord, switch_ord))
    /\ \A d \in DevicesInPlay : Sound(on_device_removed(controls, d))
    /\ \A b \in BindsInPlay : Sound(add_bind(controls, b)) /\ Sound(remove_bind(controls, b))

\* a trigger bound to a Switch target has been pressed on both devices and is
\* held by none: its overall counter is back at 0 with both device counters at
\* 0, and the target's counter, which only a removal leaves behind, shows that
\* a device was removed while it held the trigger
C19_Witness ==
    \E h \in TriggersInPlay, t \in SwitchTargets :
        /\ h \in DOMAIN controls.holdable_trigger_data
        /\ t \in controls.holdable_trigger_data[h].while_down
        /\ DOMAIN controls.holdable_trigger_data[h].device_counters = Devices
        /\ \A d \in Devices : controls.holdable_trigger_data[h].device_counters[d] = 0
        /\ controls.holdable_trigger_data[h].overall_counter = 0
        /\ \A k \in DOMAIN outstanding : outstanding[k] = 0
        /\ SwitchCounter(controls, t) = 1
        /\ ~controls.debug_panic

----------------------------------------------------------------------------
(* Trigger codec (triggers.rs).  A Rust string is the sequence of its      *)
(* characters; all strings here are ASCII, so byte and character indices   *)
(* agree.                                                                  *)

TomlString(chars) == <<"String", chars>>
TomlInteger(i) == <<"Integer", i>>
TomlFloat(x) == <<"Float", x>>

Ok(x) == <<"Ok", x>>
Err(message) == <<"Err", message>>

DigitChars == <<"0", "1", "2", "3", "4", "5", "6", "7", "8", "9">>

IsDigit(ch) == \E i \in 1..Len(DigitChars) : DigitChars[i] = ch

DigitValue(ch) == (CHOOSE i \in 1..Len(DigitChars) : DigitChars[i] = ch) - 1

\* format!("{}", number) for an unsigned number: its decimal digits
RECURSIVE Digits(_)
Digits(number) ==
    IF number < Len(DigitChars)
    THEN <<DigitChars[number + 1]>>
    ELSE Digits(number \div Len(DigitChars)) \o <<DigitChars[(number % Len(DigitChars)) + 1]>>

\* str::starts_with
starts_with(ss, prefix) ==
    /\ Len(ss) >= Len(prefix)
    /\ SubSeq(ss, 1, Len(prefix)) = prefix

\* ss[from..] with a 0-based index
SliceFrom(ss, from) == SubSeq(ss, from + 1, Len(ss))

RECURSIVE ParseDigits(_, _)
ParseDigits(digits, acc) ==
    IF digits = <<>>
    THEN Ok(acc)
    ELSE IF IsDigit(Head(digits))
         THEN ParseDigits(Tail(digits), acc * Len(DigitChars) + DigitValue(Head(digits)))
         ELSE Err("InvalidDigit")

\* str::parse::<u32>: an optional "+" and then one or more decimal digits.
\* (Numbers are kept below 2^31, where u32 does not overflow.)
parse_u32(ss) ==
    LET digits == IF ss # <<>> /\ Head(ss) = "+" THEN Tail(ss) ELSE ss
    IN  IF ss = <<>> THEN Err("Empty")
        ELSE IF digits = <<>> THEN Err("InvalidDigit")
        ELSE ParseDigits(digits, 0)

\* NumCast::from(i) for i64 -> u32
NumCast_u32(i) == IF i >= 0 THEN Ok(i) ELSE Err("None")

ButtonPrefix == <<"B", "u", "t", "t", "o", "n">>
MouseWheelUpName == <<"M", "o", "u", "s", "e", "W", "h", "e", "e", "l", "U", "p">>
MouseWheelDownName == <<"M", "o", "u", "s", "e", "W", "h", "e", "e", "l", "D", "o", "w", "n">>

\* the entries of KEY_CODE_PAIRS (triggers.rs:151-312) for the keys in use,
\* in table order
KEY_CODE_PAIRS ==
    << <<"Key1", <<"1">>>>,
       <<"B", <<"B">>>>,
       <<"G", <<"G">>>>,
       <<"Escape", <<"E", "s", "c", "a", "p", "e">>>>,
       <<"F1", <<"F", "1">>>> >>

\* the `for &(kc, name) in KEY_CODE_PAIRS` loops: the first pair that matches
\* among the table indices in found, or <<>> when the loop runs to its end
FirstPair(found) ==
    IF found = {} THEN <<>>
    ELSE KEY_CODE_PAIRS[CHOOSE i \in found : \A j \in found : i <= j]

\* the index at which triggers.rs:72 cuts the string to get the button number
ButtonDigitsFrom == 5

\* HoldableTrigger::from_toml (triggers.rs:55-89)
HoldableTrigger_from_toml(v) ==
    CASE v[1] = "Integer" ->
            LET sc == NumCast_u32(v[2])
            IN  IF sc[1] = "Ok" THEN Ok(ScanCode(sc[2])) ELSE Err("Invalid scan code")
      [] v[1] = "String" ->
            LET ss == v[2]
            IN  IF starts_with(ss, ButtonPrefix)
                THEN LET number == parse_u32(SliceFrom(ss, ButtonDigitsFrom))
                     IN  IF number[1] = "Ok"
                         THEN Ok(Button(number[2]))
                         ELSE Err("Unknown push button")
                ELSE LET pair == FirstPair({i \in 1..Len(KEY_CODE_PAIRS) :
                                                KEY_CODE_PAIRS[i][2] = ss})
                     IN  IF pair # <<>> THEN Ok(KeyCode(pair[1])) ELSE Err("Unknown push button")
      [] OTHER -> Err("Unknown push button")

\* HoldableTrigger::to_toml (triggers.rs:91-110)
HoldableTrigger_to_toml(trigger) ==
    CASE trigger[1] = "ScanCode" -> TomlInteger(trigger[2])
      [] trigger[1] = "KeyCode" ->
            LET pair == FirstPair({i \in 1..Len(KEY_CODE_PAIRS) :
                                       KEY_CODE_PAIRS[i][1] = trigger[2]})
            IN  IF pair # <<>> THEN TomlString(pair[2]) ELSE TomlString(<<>>)
      [] trigger[1] = "Button" -> TomlString(ButtonPrefix \o Digits(trigger[2]))

\* FireTrigger::from_toml (triggers.rs:16-33)
FireTrigger_from_toml(v) ==
    LET switch_trigger == HoldableTrigger_from_toml(v)
    IN  IF switch_trigger[1] = "Ok"
        THEN Ok(<<"Holdable", switch_trigger[2]>>)
        ELSE IF v[1] = "String"
             THEN IF v[2] = MouseWheelUpName THEN Ok(<<"MouseWheelTick", "Up">>)
                  ELSE IF v[2] = MouseWheelDownName THEN Ok(<<"MouseWheelTick", "Down">>)
                  ELSE Err("Unknown fire trigger")
             ELSE Err("Fire trigger must be string")

\* FireTrigger::to_toml (triggers.rs:35-44)
FireTrigger_to_toml(trigger) ==
    CASE trigger[1] = "Holdable" -> HoldableTrigger_to_toml(trigger[2])
      [] trigger = <<"MouseWheelTick", "Up">> -> TomlString(MouseWheelUpName)
      [] trigger = <<"MouseWheelTick", "Down">> -> TomlString(MouseWheelDownName)

----------------------------------------------------------------------------
(* SpecCodec: the trigger codec applied to triggers and to TOML values *)

MaxButton == 20

CodecHoldables ==
    {Button(n) : n \in 0..MaxButton}
    \cup {ScanCode(34), ScanCode(0)}
    \cup {KeyCode(KEY_CODE_PAIRS[i][1]) : i \in 1..Len(KEY_CODE_PAIRS)}

CodecFires ==
    {<<"Holdable", h>> : h \in CodecHoldables}
    \cup {<<"MouseWheelTick", dir>> : dir \in {"Up", "Down"}}

\* TOML values a document can hold where a trigger is expected
CodecValues ==
    {TomlString(ButtonPrefix \o Digits(n)) : n \in 0..MaxButton}
    \cup {TomlString(ButtonPrefix), TomlString(ButtonPrefix \o <<"+", "1">>),
          TomlString(MouseWheelUpName), TomlString(MouseWheelDownName), TomlString(<<>>)}
    \cup {TomlString(KEY_CODE_PAIRS[i][2]) : i \in 1..Len(KEY_CODE_PAIRS)}
    \cup {TomlInteger(34), TomlInteger(0), TomlInteger(-1), TomlFloat(1)}

\* the codec is handed a trigger to encode or a value to decode as the trigger
\* of a Fire target (family "Fire") or of a Switch target (family "Switch")
InitCodec ==
    /\ controls = Controls_new
    /\ outstanding = <<>>
    /\ last_switch = [t \in SwitchTargets |-> "None"]
    /\ \/ \E h \in CodecHoldables : codec = [kind |-> "Trigger", family |-> "Switch", val |-> h]
       \/ \E f \in CodecFires : codec = [kind |-> "Trigger", family |-> "Fire", val |-> f]
       \/ \E v \in CodecValues, family \in {"Fire", "Switch"} :
            codec = [kind |-> "Toml", family |-> family, val |-> v]

EncodeHoldable ==
    /\ codec.kind = "Trigger" /\ codec.family = "Switch"
    /\ codec' = [kind |-> "Toml", family |-> "Switch", val |-> HoldableTrigger_to_toml(codec.val)]
    /\ UNCHANGED <<controls, outstanding, last_switch>>

EncodeFire ==
    /\ codec.kind = "Trigger" /\ codec.family = "Fire"
    /\ codec' = [kind |-> "Toml", family |-> "Fire", val |-> FireTrigger_to_toml(codec.val)]
    /\ UNCHANGED <<controls, outstanding, last_switch>>

DecodeHoldable ==
    /\ codec.kind = "Toml" /\ codec.family = "Switch"
    /\ codec' = [kind |-> "Result", family |-> "Switch", input |-> codec.val,
                 val |-> HoldableTrigger_from_toml(codec.val)]
    /\ UNCHANGED <<controls, outstanding, last_switch>>

DecodeFire ==
    /\ codec.kind = "Toml" /\ codec.family = "Fire"
    /\ codec' = [kind |-> "Result", family |-> "Fire", input |-> codec.val,
                 val |-> FireTrigger_from_toml(codec.val)]
    /\ UNCHANGED <<controls, outstanding, last_switch>>

NextCodec ==
    \/ EncodeHoldable
    \/ EncodeFire
    \/ DecodeHoldable
    \/ DecodeFire

SpecCodec == InitCodec /\ [][NextCodec]_vars

----------------------------------------------------------------------------
(* C20: "Button<N>" (checked under SpecCodec) *)

\* C20: decoding the string "Button<N>" as the trigger of a Fire or Switch
\* target succeeds and yields Holdable(Button(N)), for every N; it is the
\* inverse of the encoder, which writes Button(N) as "Button<N>".
C20_ButtonStringDecodes ==
    \A n \in 0..MaxButton :
        LET v == TomlString(ButtonPrefix \o Digits(n))
        IN  /\ HoldableTrigger_to_toml(Button(n)) = v
            /\ (codec.kind = "Result" /\ codec.input = v) =>
                    codec.val = (IF codec.family = "Fire"
                                 THEN Ok(<<"Holdable", Button(n)>>)
                                 ELSE Ok(Button(n)))

----------------------------------------------------------------------------
(* Configuration codec (lib.rs:164-249, triggers.rs:113-148).  A TOML table *)
(* is a function from its keys to TOML values.                              *)

TomlTable(entries) == <<"Table", entries>>

MouseWheelName == <<"M", "o", "u", "s", "e", "W", "h", "e", "e", "l">>
MouseXName == <<"M", "o", "u", "s", "e", "X">>
MouseYName == <<"M", "o", "u", "s", "e", "Y">>

\* ValueTrigger::from_toml (triggers.rs:122-137)
ValueTrigger_from_toml(v) ==
    CASE v[1] = "Integer" ->
            LET axis == NumCast_u32(v[2])
            IN  IF axis[1] = "Ok" THEN Ok(<<"Axis", axis[2]>>) ELSE Err("Invalid axis id")
      [] v[1] = "String" ->
            IF v[2] = MouseWheelName THEN Ok(<<"MouseWheel">>) ELSE Err("Unknown axis")
      [] OTHER -> Err("'axis' must be integer or string")

\* ValueTrigger::to_toml (triggers.rs:139-148)
ValueTrigger_to_toml(trigger) ==
    CASE trigger[1] = "MouseX" -> TomlString(MouseXName)
      [] trigger[1] = "MouseY" -> TomlString(MouseYName)
      [] trigger[1] = "MouseWheel" -> TomlString(MouseWheelName)
      [] trigger[1] = "Axis" -> TomlInteger(trigger[2])

\* Target::from_str (lib.rs:57-71): the Fire, Switch and Value parsers in turn;
\* a target is written as its name
Target_from_str(name) ==
    IF name \in FireTargets THEN Ok(<<"Fire", name>>)
    ELSE IF name \in SwitchTargets THEN Ok(<<"Switch", name>>)
    ELSE IF name \in ValueTargets THEN Ok(<<"Value", name>>)
    ELSE Err("Unknown target")

\* the keys a document may use, in the ascending order in which a BTreeMap
\* hands them out
TableKeys == <<"Bogus", "GHSwitch", "LMBFire", "MouseX">>

\* the loop of lib.rs:176-186 over the entries of binds; acc is Ok(controls)
\* until an entry fails, and the first failure is what from_toml returns
RECURSIVE LoadBinds(_, _, _)
LoadBinds(acc, keys, entries) ==
    IF keys = <<>> \/ acc[1] = "Err"
    THEN acc
    ELSE LET target_string == Head(keys)
             trigger_value == entries[target_string]
             target == Target_from_str(target_string)
             trigger == CASE target[1] = "Err" -> target
                          [] target[2][1] = "Fire" -> FireTrigger_from_toml(trigger_value)
                          [] target[2][1] = "Switch" -> HoldableTrigger_from_toml(trigger_value)
                          [] target[2][1] = "Value" -> ValueTrigger_from_toml(trigger_value)
         IN  IF trigger[1] = "Err"
             THEN trigger
             ELSE LoadBinds(Ok(add_bind(acc[2], <<target[2][1], trigger[2], target[2][2]>>)),
                            Tail(keys), entries)

\* the loop of lib.rs:193-201 over the entries of factors
RECURSIVE LoadFactors(_, _, _)
LoadFactors(acc, keys, entries) ==
    IF keys = <<>> \/ acc[1] = "Err"
    THEN acc
    ELSE LET target_string == Head(keys)
             trigger_value == entries[target_string]
             target == Target_from_str(target_string)
         IN  IF target[1] = "Err" THEN target
             ELSE IF target[2][1] # "Value" THEN Err("Expected value target!")
             ELSE IF trigger_value[1] # "Float" THEN Err("Factor must be a float")
             ELSE LoadFactors(Ok(set_factor(acc[2], target[2][2], trigger_value[2])),
                              Tail(keys), entries)

\* the keys of a table in iteration order
KeysOf(entries) == SelectSeq(TableKeys, LAMBDA k : k \in DOMAIN entries)

\* fault: the factors section is read without checking the target family or
\* the value type
from_toml_lenient_factors(doc) ==
    IF doc[1] # "Table" THEN Err("Controls must be a table!")
    ELSE LET table == doc[2]
         IN  IF "binds" \notin DOMAIN table THEN Err("No binds section found in controls!")
             ELSE IF table["binds"][1] # "Table" THEN Err("Binds must be a table!")
             ELSE LET bound == LoadBinds(Ok(Controls_new), KeysOf(table["binds"][2]),
                                         table["binds"][2])
                  IN  IF bound[1] = "Err" THEN bound
                      ELSE IF "factors" \notin DOMAIN table
                      THEN Err("No binds section found in controls!")
                      ELSE IF table["factors"][1] # "Table" THEN Err("Binds must be a table!")
                      ELSE bound

\* Controls::from_toml (lib.rs:164-208)
from_toml(doc) ==
    IF doc[1] # "Table" THEN Err("Controls must be a table!")
    ELSE LET table == doc[2]
         IN  IF "binds" \notin DOMAIN table THEN Err("No binds section found in controls!")
             ELSE IF table["binds"][1] # "Table" THEN Err("Binds must be a table!")
             ELSE LET bound == LoadBinds(Ok(Controls_new), KeysOf(table["binds"][2]),
                                         table["binds"][2])
                  IN  IF bound[1] = "Err" THEN bound
                      ELSE IF "factors" \notin DOMAIN table
                      THEN Err("No binds section found in controls!")
                      ELSE IF table["factors"][1] # "Table" THEN Err("Binds must be a table!")
                      ELSE LoadFactors(bound, KeysOf(table["factors"][2]), table["factors"][2])

\* binds.insert(target.to_string(), v) for every target of a set
InsertAll(binds, targets, v) ==
    [k \in (DOMAIN binds) \cup targets |-> IF k \in targets THEN v ELSE binds[k]]

\* the loop of lib.rs:218-225 over holdable_trigger_data, in iteration order
RECURSIVE HoldableEntries(_, _, _)
HoldableEntries(binds, c, triggers) ==
    IF triggers = <<>>
    THEN binds
    ELSE LET trigger == Head(triggers)
             data == c.holdable_trigger_data[trigger]
             b1 == InsertAll(binds, data.on_press, FireTrigger_to_toml(<<"Holdable", trigger>>))
             b2 == InsertAll(b1, data.while_down, HoldableTrigger_to_toml(trigger))
         IN  HoldableEntries(b2, c, Tail(triggers))

\* the loop of lib.rs:226-230 over axis_mappings, in iteration order
RECURSIVE AxisEntries(_, _, _)
AxisEntries(binds, c, axes) ==
    IF axes = <<>>
    THEN binds
    ELSE AxisEntries(InsertAll(binds, c.axis_mappings[Head(axes)], TomlInteger(Head(axes))),
                     c, Tail(axes))

\* Controls::to_toml (lib.rs:210-249); trigger_ord and axis_ord are the
\* iteration orders of the two HashMaps
to_toml(c, trigger_ord, axis_ord) ==
    LET b1 == HoldableEntries(EmptyMap, c, trigger_ord)
        b2 == AxisEntries(b1, c, axis_ord)
        b3 == InsertAll(b2, c.mouse_wheel_mapping.on_up,
                        FireTrigger_to_toml(<<"MouseWheelTick", "Up">>))
        b4 == InsertAll(b3, c.mouse_wheel_mapping.on_down,
                        FireTrigger_to_toml(<<"MouseWheelTick", "Down">>))
        binds == InsertAll(b4, c.mouse_wheel_mapping.on_change,
                           ValueTrigger_to_toml(<<"MouseWheel">>))
        factors == [t \in DOMAIN c.value_factors |-> TomlFloat(c.value_factors[t])]
    IN  TomlTable([k \in {"binds", "factors"} |->
                      IF k = "binds" THEN TomlTable(binds) ELSE TomlTable(factors)])

----------------------------------------------------------------------------
(* SpecToml: from_toml applied to documents, to_toml to what it returns *)

\* every table over some of the keys with values from the given set
Tables(keys, values) == UNION {[K -> values] : K \in SUBSET keys}

NotATable == TomlInteger(1)

\* what a document may hold where a trigger is expected
BindValues ==
    {TomlInteger(34), TomlInteger(-1), TomlFloat(1),
     TomlString(KEY_CODE_PAIRS[3][2]), TomlString(ButtonPrefix \o Digits(1)),
     TomlString(MouseWheelUpName), TomlString(MouseWheelDownName),
     TomlString(MouseWheelName), TomlString(MouseXName)}

BindSections ==
    {TomlTable(b) : b \in Tables({"GHSwitch", "LMBFire", "MouseX"}, BindValues)}
    \cup {TomlTable(Put(b, "Bogus", TomlInteger(34))) :
            b \in Tables({"GHSwitch", "MouseX"}, {TomlInteger(34)})}
    \cup {NotATable}

FactorSections ==
    {TomlTable(f) : f \in Tables({"LMBFire", "MouseX"}, {TomlFloat(2), TomlInteger(2)})}
    \cup {TomlTable(Put(EmptyMap, "Bogus", TomlFloat(2))), NotATable}

Documents ==
    {TomlTable([k \in {"binds", "factors"} |-> IF k = "binds" THEN bs ELSE fs]) :
        bs \in BindSections, fs \in FactorSections}
    \cup {TomlTable([k \in {"binds"} |-> bs]) : bs \in BindSections}
    \cup {TomlTable([k \in {"factors"} |-> fs]) : fs \in FactorSections}
    \cup {TomlTable(EmptyMap), NotATable}

InitToml ==
    /\ controls = Controls_new
    /\ outstanding = <<>>
    /\ last_switch = [t \in SwitchTargets |-> "None"]
    /\ \E doc \in Documents : codec = [kind |-> "Document", val |-> doc]

\* Controls::from_toml(&document)
FromToml ==
    /\ codec.kind = "Document"
    /\ codec' = [kind |-> "Loaded", input |-> codec.val, val |-> from_toml(codec.val)]
    /\ UNCHANGED <<controls, outstanding, last_switch>>

\* to_toml on the Controls that from_toml returned
ToToml ==
    /\ codec.kind = "Loaded"
    /\ codec.val[1] = "Ok"
    /\ \E trigger_ord \in Orders(DOMAIN codec.val[2].holdable_trigger_data),
          axis_ord \in Orders(DOMAIN codec.val[2].axis_mappings) :
            codec' = [kind |-> "Written", input |-> codec.input,
                      val |-> to_toml(codec.val[2], trigger_ord, axis_ord)]
    /\ UNCHANGED <<controls, outstanding, last_switch>>

NextToml ==
    \/ FromToml
    \/ ToToml

SpecToml == InitToml /\ [][NextToml]_vars

----------------------------------------------------------------------------
(* C21, C22: documents (checked under SpecToml) *)

IsKeyName(chars) == \E i \in 1..Len(KEY_CODE_PAIRS) : KEY_CODE_PAIRS[i][2] = chars

IsButtonName(chars) == \E n \in 0..MaxButton : chars = ButtonPrefix \o Digits(n)

\* the family of a target name, "None" when no parser accepts it
FamilyOf(name) ==
    IF name \in FireTargets THEN "Fire"
    ELSE IF name \in SwitchTargets THEN "Switch"
    ELSE IF name \in ValueTargets THEN "Value"
    ELSE "None"

\* the trigger values of a family that use no MouseX/MouseY trigger: scancode
\* or axis integers, named keys, "Button<N>", the wheel names
ValidTrigger(family, v) ==
    \/ v[1] = "Integer" /\ v[2] >= 0 /\ family \in {"Fire", "Switch", "Value"}
    \/ v[1] = "String" /\ family \in {"Fire", "Switch"}
          /\ (IsKeyName(v[2]) \/ IsButtonName(v[2]))
    \/ v[1] = "String" /\ family = "Fire" /\ v[2] \in {MouseWheelUpName, MouseWheelDownName}
    \/ v[1] = "String" /\ family = "Value" /\ v[2] = MouseWheelName

IsTableWith(value, key) ==
    /\ value[1] = "Table"
    /\ key \in DOMAIN value[2]
    /\ value[2][key][1] = "Table"

ValidDocument(doc) ==
    /\ IsTableWith(doc, "binds")
    /\ IsTableWith(doc, "factors")
    /\ \A k \in DOMAIN doc[2]["binds"][2] : ValidTrigger(FamilyOf(k), doc[2]["binds"][2][k])
    /\ \A k \in DOMAIN doc[2]["factors"][2] :
         FamilyOf(k) = "Value" /\ doc[2]["factors"][2][k][1] = "Float"

\* C21: for any valid document with binds and factors sections whose bindings
\* use no MouseX/MouseY trigger (scancode integers, named keys, "Button<N>",
\* "MouseWheelUp"/"MouseWheelDown", "MouseWheel", axis integers), from_toml
\* succeeds and to_toml of the result equals the original document.
C21_ValidDocumentRoundTrips ==
    /\ (codec.kind = "Loaded" /\ ValidDocument(codec.input)) => codec.val[1] = "Ok"
    /\ (codec.kind = "Written" /\ ValidDocument(codec.input)) => codec.val = codec.input

\* the trigger values the decoding rules give to a family, MouseX/MouseY and
\* "Button<N>" included; integers of any sign
FitsFamily(family, v) ==
    \/ v[1] = "Integer"
    \/ v[1] = "String" /\ family \in {"Fire", "Switch"}
          /\ (IsKeyName(v[2]) \/ IsButtonName(v[2]))
    \/ v[1] = "String" /\ family = "Fire" /\ v[2] \in {MouseWheelUpName, MouseWheelDownName}
    \/ v[1] = "String" /\ family = "Value" /\ v[2] \in {MouseWheelName, MouseXName, MouseYName}

\* the document has one of the defects that from_toml is to reject
Defective(doc) ==
    \/ doc[1] # "Table"
    \/ ~IsTableWith(doc, "binds")
    \/ ~IsTableWith(doc, "factors")
    \/ \E k \in DOMAIN doc[2]["binds"][2] :
         LET v == doc[2]["binds"][2][k]
         IN  \/ FamilyOf(k) = "None"
             \/ ~FitsFamily(FamilyOf(k), v)
             \/ v[1] = "Integer" /\ v[2] < 0
    \/ \E k \in DOMAIN doc[2]["factors"][2] :
         \/ FamilyOf(k) # "Value"
         \/ doc[2]["factors"][2][k][1] # "Float"

ErrorMessages ==
    {"Controls must be a table!", "No binds section found in controls!",
     "Binds must be a table!", "Unknown target", "Expected value target!",
     "Factor must be a float", "Unknown push button", "Invalid scan code",
     "Unknown fire trigger", "Fire trigger must be string", "Invalid axis id",
     "Unknown axis", "'axis' must be integer or string"}

\* C22: from_toml returns an error and no Controls whenever the top level is
\* not a table, binds or factors is missing or not a table, a target name is
\* accepted by no parser, a trigger value does not fit the target's family, a
\* factor is not a float or is given for a non-Value target, or an integer does
\* not fit the unsigned width; also when the error comes after bindings that
\* were decoded.
C22_DefectiveDocumentIsRejected ==
    (codec.kind = "Loaded" /\ Defective(codec.input)) =>
        \E message \in ErrorMessages : codec.val = Err(message)

\* the first entry of binds decodes, a later one does not, and the result is
\* an error
C22_Witness ==
    /\ codec.kind = "Loaded"
    /\ IsTableWith(codec.input, "binds")
    /\ IsTableWith(codec.input, "factors")
    /\ LET entries == codec.input[2]["binds"][2]
       IN  /\ DOMAIN entries = {"GHSwitch", "MouseX"}
           /\ entries["GHSwitch"] = TomlInteger(34)
           /\ entries["MouseX"] = TomlFloat(1)
    /\ codec.val = Err("'axis' must be integer or string")

----------------------------------------------------------------------------
(* C23: MouseX and MouseY bindings (checked under SpecBind) *)

MouseAxisBinds == {<<"Value", tr, t>> : tr \in {<<"MouseX">>, <<"MouseY">>}, t \in ValueTargets}

\* C23: add_bind(Value(MouseX, t)) and add_bind(Value(MouseY, t)) are accepted
\* without failure and the binding is stored: the state after the call records
\* it and differs from the state before the call.
C23_MouseAxisBindIsStored ==
    \A b \in MouseAxisBinds :
        LET c2 == add_bind(controls, b)
        IN  /\ ~c2.debug_panic
            /\ c2 # controls

----------------------------------------------------------------------------
(* C24: ignored events (checked under SpecWheel) *)

\* C24: process of a MouseMotion event or of a MouseWheel event with a pixel
\* delta completes without failure, enqueues no event and leaves binding
\* tables, press counters, switch counters and value factors unchanged,
\* whatever bindings exist.
C24_IgnoredEventsChangeNothing ==
    /\ \A d \in DevicesInPlay, delta \in RawValues \X RawValues :
         on_mouse_motion(controls, d, delta) = controls
    /\ \A d \in DevicesInPlay, delta \in WheelDeltas, ords \in WheelOrders :
         delta[1] = "PixelDelta" => on_mouse_wheel(controls, d, delta, ords) = controls

\* the wheel is bound in every way and the target has a factor: the ignored
\* events leave this state as it is, with its queue empty
C24_Witness ==
    /\ controls.mouse_wheel_mapping.on_up # {}
    /\ controls.mouse_wheel_mapping.on_down # {}
    /\ controls.mouse_wheel_mapping.on_change # {}
    /\ controls.value_factors # EmptyMap
    /\ controls.events = <<>>
    /\ on_mouse_wheel(controls, "D1", PixelDelta(0, 1),
                      CHOOSE ords \in WheelOrders : TRUE) = controls

----------------------------------------------------------------------------
(* C25..C28: interior edges, device removal, switch state (checked under Spec) *)

\* c2 differs from c at most in the press counters of trigger h
OnlyCountersOf(c, c2, h) ==
    /\ c2.events = c.events
    /\ c2.switch_counter = c.switch_counter
    /\ c2.debug_panic = c.debug_panic
    /\ SameBindingStore(c, c2)
    /\ c2.value_factors = c.value_factors
    /\ \A g \in TriggersInPlay \ {h} : DataOf(c2, g) = DataOf(c, g)

\* C25: a Pressed that finds overall_counter already positive and a Released
\* that leaves it positive, on the same or another device, update only that
\* trigger's per-device and overall counters: no event is enqueued and no
\* switch counter changes.
C25_InteriorEdgesAreSilent ==
    \A h \in TriggersInPlay, d \in DevicesInPlay,
       fire_ord \in Orders(FireTargets), switch_ord \in Orders(SwitchTargets) :
        LET pressed == handle_holdable_trigger(controls, h, d, Pressed, fire_ord, switch_ord)
            released == handle_holdable_trigger(controls, h, d, Released, fire_ord, switch_ord)
        IN  /\ OverallCounter(controls, h) > 0 =>
                /\ OnlyCountersOf(controls, pressed, h)
                /\ OverallCounter(pressed, h) = OverallCounter(controls, h) + 1
                /\ DeviceCounter(pressed, h, d) = DeviceCounter(controls, h, d) + 1
            /\ (OverallCounter(controls, h) > 1 /\ outstanding[<<h, d>>] > 0) =>
                /\ OnlyCountersOf(controls, released, h)
                /\ OverallCounter(released, h) = OverallCounter(controls, h) - 1
                /\ DeviceCounter(released, h, d) = DeviceCounter(controls, h, d) - 1

\* a trigger bound to a Switch target was pressed on D1 and D2 and released on
\* D1: the queue holds the one Active and nothing else
C25_Witness ==
    \E h \in TriggersInPlay, t \in SwitchTargets :
        /\ DataOf(controls, h).while_down = {t}
        /\ DataOf(controls, h).on_press = {}
        /\ outstanding[<<h, "D1">>] = 0
        /\ outstanding[<<h, "D2">>] = 1
        /\ DataOf(controls, h).device_counters = [d \in Devices |-> IF d = "D2" THEN 1 ELSE 0]
        /\ OverallCounter(controls, h) = 1
        /\ SwitchCounter(controls, t) = 1
        /\ controls.events = <<Switch(t, Active)>>

\* C26: process(d, Removed) subtracts, for every holdable trigger, that
\* trigger's device_counters[d] from its overall_counter and sets
\* device_counters[d] to 0; the counters of every other device and all binding
\* sets are unchanged, and a trigger still held on another device keeps
\* overall_counter > 0.
C26_RemovedSubtractsDevice ==
    \A d \in DevicesInPlay :
        LET c2 == on_device_removed(controls, d)
        IN  /\ SameBindingStore(controls, c2)
            /\ DOMAIN c2.holdable_trigger_data = DOMAIN controls.holdable_trigger_data
            /\ \A h \in DOMAIN controls.holdable_trigger_data :
                 /\ OverallCounter(c2, h) = OverallCounter(controls, h) - DeviceCounter(controls, h, d)
                 /\ DeviceCounter(c2, h, d) = 0
                 /\ \A e \in DevicesInPlay \ {d} :
                      /\ DeviceCounter(c2, h, e) = DeviceCounter(controls, h, e)
                      /\ DeviceCounter(controls, h, e) > 0 => OverallCounter(c2, h) > 0

\* D1 held a trigger when it was removed: the trigger's counters are back at 0
\* while the counter of its Switch target still counts the press
C26_Witness ==
    \E h \in TriggersInPlay, t \in SwitchTargets :
        /\ h \in DOMAIN controls.holdable_trigger_data
        /\ t \in controls.holdable_trigger_data[h].while_down
        /\ controls.holdable_trigger_data[h].device_counters = [d \in {"D1"} |-> 0]
        /\ controls.holdable_trigger_data[h].overall_counter = 0
        /\ SwitchCounter(controls, t) = 1

\* C27: the reported state of a Switch target never stays Active with nothing
\* held: in every reachable state between calls, if no holdable trigger bound
\* to s has overall_counter > 0, the last Switch event enqueued for s is
\* Inactive, or none was ever enqueued.
C27_NoActiveWithNothingHeld ==
    \A t \in SwitchTargets :
        HeldTriggers(controls, t) = {} => last_switch[t] \in {Inactive, "None"}

\* C28: the assertion of decrease_switch_target_counter never fails: every
\* decrement of a well-formed release, and of a remove_bind of a Switch
\* binding, finds switch_counter[s] > 0, also after a device removal zeroed the
\* trigger's counter; the counter covers every held trigger bound to s.
C28_SwitchDecrementNeverUnderflows ==
    /\ \A t \in SwitchTargets :
         /\ SwitchCounter(controls, t) >= Cardinality(HeldTriggers(controls, t))
         /\ \A h \in TriggersInPlay :
              ~remove_switch_bind(controls, h, t).debug_panic
    /\ \A h \in TriggersInPlay, d \in DevicesInPlay,
          fire_ord \in Orders(FireTargets), switch_ord \in Orders(SwitchTargets) :
            outstanding[<<h, d>>] > 0 =>
                ~handle_holdable_trigger(controls, h, d, Released, fire_ord, switch_ord).debug_panic

\* a removal zeroed a held trigger's counter and its Switch binding has been
\* removed since: the target's counter still counts the press, nothing is bound
C28_Witness ==
    \E h \in TriggersInPlay, t \in SwitchTargets :
        /\ h \in DOMAIN controls.holdable_trigger_data
        /\ "D1" \in DOMAIN controls.holdable_trigger_data[h].device_counters
        /\ controls.holdable_trigger_data[h].overall_counter = 0
        /\ \A g \in TriggersInPlay : t \notin DataOf(controls, g).while_down
        /\ SwitchCounter(controls, t) = 1
        /\ ~controls.debug_panic

====
